---- MODULE Spec2Model ----
(***************************************************************************)
(* Model of index.js: a retrieval-augmented question answering CLI.        *)
(* main loads the knowledge base, prompts once, embeds the query and every *)
(* document through the embedding service, ranks the documents by cosine   *)
(* similarity, and asks the chat service for an answer over the documents  *)
(* that score above the threshold.                                         *)
(*                                                                         *)
(* Numbers: embeddings are integer vectors and a similarity score is kept  *)
(* exactly, as the pair (num, den2) standing for num / sqrt(den2).  The    *)
(* rounding of IEEE doubles is not modelled.                               *)
(***************************************************************************)
EXTENDS Integers, Sequences, FiniteSets, TLC

\* Largest number of files in the knowledge-base directory.
MaxDocs == 3

\* Longest vector, other than the fallback, given to cosineSimilarity in CosSpec.
MaxDim == 3

\* new Array(512).fill(0), line 60.
FallbackLength == 512

VARIABLES
    pc,             \* main: "start", "asking", "retrieving", "generating", "done", "crashed"
    rlOpen,         \* the readline interface rl is open
    prompts,        \* number of rl.question calls made
    documents,      \* main's documents
    query,          \* main's query
    rpc,            \* retrieveRelevantDocsWithEmbeddings: "idle", "embedQuery", "fanout", "returned"
    queryResponse,  \* what the embedding service did for the query
    docState,       \* per document: "idle", "inflight", "settled"
    docResponse,    \* per document: what the embedding service did for it
    docsWithScores, \* the values of the promises handed to Promise.all, in input order
    outOfOrder,     \* a document's call settled while an earlier document's was in flight
    relevantDocs,   \* main's relevantDocs
    context,        \* main's context
    genCalls,       \* number of generateAnswerWithOpenAI calls made
    chatResponse,   \* what the chat service did
    output,         \* what main printed
    cosPc,          \* CosSpec: "input", "applied", "filtered"
    vecA,           \* CosSpec: cosineSimilarity's first argument
    vecB,           \* CosSpec: cosineSimilarity's second argument
    cosResult,      \* CosSpec: the value cosineSimilarity returned
    cosKept         \* CosSpec: a document with that score is in the retrieval result

mainVars == <<pc, rlOpen, prompts, documents, query, context, genCalls, chatResponse, output>>
retrVars == <<rpc, queryResponse, docState, docResponse, docsWithScores, outOfOrder,
              relevantDocs>>
cosVars == <<cosPc, vecA, vecB, cosResult, cosKept>>
vars == <<mainVars, retrVars, cosVars>>

----------------------------------------------------------------------------
(* Values *)

\* A JavaScript value in an embedding position: an array of numbers, undefined,
\* or some other non-array value.
Arr(v) == [kind |-> "array", vec |-> v]
Missing == [kind |-> "missing", vec |-> <<>>]
Scalar == [kind |-> "scalar", vec |-> <<>>]

\* num / sqrt(den2); the literal 0 is 0 / sqrt(1).
ZeroScore == [num |-> 0, den2 |-> 1]

\* The score 0.5 of the filter.
Threshold == [num |-> 1, den2 |-> 4]

\* a > b on scores, as JavaScript's > (false when either side is NaN, den2 = 0).
ScoreGT(a, b) ==
    /\ a.den2 > 0
    /\ b.den2 > 0
    /\ IF a.num > 0
       THEN b.num <= 0 \/ a.num * a.num * b.den2 > b.num * b.num * a.den2
       ELSE b.num < 0 /\ a.num * a.num * b.den2 < b.num * b.num * a.den2

Min(a, b) == IF a <= b THEN a ELSE b

FallbackVectorOnes == Arr([i \in 1..FallbackLength |-> 1])

FallbackVector == Arr([i \in 1..FallbackLength |-> 0])


----------------------------------------------------------------------------
(* cosineSimilarity, lines 140-173 *)

\* The two reduces of lines 155-165 add integers, so the order of the additions
\* does not change the sum: the range is halved to keep the evaluation shallow.
RECURSIVE DotRange(_, _, _, _)
DotRange(a, b, lo, hi) ==
    IF lo > hi THEN 0
    ELSE IF lo = hi THEN a[lo] * b[lo]
    ELSE LET mid == (lo + hi) \div 2 IN DotRange(a, b, lo, mid) + DotRange(a, b, mid + 1, hi)

\* Array.from({length}, (_, i) => vecA[i] * vecB[i]).reduce(...), lines 155-156.
DotProduct(a, b, n) == DotRange(a, b, 1, n)

\* vec.slice(0, length).reduce((sum, a) => sum + a * a, 0), lines 160 and 164.
SumSquares(a, n) == DotRange(a, a, 1, n)

\* cosineSimilarity with the test of the norms left out: 0 / 0 is NaN (den2 = 0).
cosineSimilarityNoNormGuard(a, b) ==
    IF a.kind # "array" \/ b.kind # "array"
    THEN ZeroScore
    ELSE LET length == Min(Len(a.vec), Len(b.vec)) IN
         IF length = 0
         THEN ZeroScore
         ELSE [num |-> DotProduct(a.vec, b.vec, length),
               den2 |-> SumSquares(a.vec, length) * SumSquares(b.vec, length)]

cosineSimilarity(a, b) ==
    IF a.kind # "array" \/ b.kind # "array"
    THEN ZeroScore
    ELSE LET length == Min(Len(a.vec), Len(b.vec)) IN
         IF length = 0
         THEN ZeroScore
         ELSE LET dotProduct == DotProduct(a.vec, b.vec, length)
                  normA2 == SumSquares(a.vec, length)
                  normB2 == SumSquares(b.vec, length)
              IN  IF normA2 = 0 \/ normB2 = 0
                  THEN ZeroScore
                  ELSE [num |-> dotProduct, den2 |-> normA2 * normB2]

----------------------------------------------------------------------------
(* generateEmbeddings and getEmbedding, lines 30-62 and 130-138 *)

\* What the embedding service does for one request: the request fails in
\* transport or in parsing ("network_error"), it answers with a non-success
\* status ("http_error"), or it answers with result.data[0].embedding.
EmbedOk(e) == [kind |-> "ok", embedding |-> e]
EmbedHttpError == [kind |-> "http_error", embedding |-> Missing]
EmbedNetworkError == [kind |-> "network_error", embedding |-> Missing]
NoResponse == [kind |-> "none", embedding |-> Missing]

EmbedFailed(resp) == resp.kind \in {"http_error", "network_error"}

generateEmbeddings(resp) ==
    IF resp.kind = "ok" THEN resp.embedding ELSE FallbackVector

getEmbedding(resp) == generateEmbeddings(resp)

----------------------------------------------------------------------------
(* retrieveRelevantDocsWithEmbeddings, lines 96-128 *)

\* !queryEmbedding || !Array.isArray(queryEmbedding), line 101.
InvalidQueryEmbedding(e) == e.kind # "array"

ScoredDoc(doc, score) ==
    [filename |-> doc.filename, content |-> doc.content, score |-> score]

\* The per-document callback without its own handling of a failed embedding:
\* the promise rejects.
DocHandlerNoIsolation(doc, qEmb, resp) ==
    [rejected |-> EmbedFailed(resp),
     value |-> ScoredDoc(doc, cosineSimilarity(qEmb, getEmbedding(resp)))]

\* The async callback of documents.map, lines 108-117.  getEmbedding never
\* rejects and cosineSimilarity never throws, so the promise always fulfils.
DocHandler(doc, qEmb, resp) ==
    [rejected |-> FALSE,
     value |-> ScoredDoc(doc, cosineSimilarity(qEmb, getEmbedding(resp)))]

AnySettled(ds) == \E i \in DOMAIN ds : ds[i] = "settled"

\* Promise.all fulfils once every promise has fulfilled, line 107.
AllSettled(ds) == \A i \in DOMAIN ds : ds[i] = "settled"

RelevantGE(doc) == ~ScoreGT(Threshold, doc.score)

\* doc.score > 0.5, line 122.
Relevant(doc) == ScoreGT(doc.score, Threshold)

\* (a, b) => b.score - a.score, line 123: the sign of the difference.
Compare(a, b) ==
    IF ScoreGT(b.score, a.score) THEN 1
    ELSE IF ScoreGT(a.score, b.score) THEN -1
    ELSE 0

\* arr[i] comes before arr[j] in a stable sort: the comparator puts it first,
\* or calls the two equal and it was first in arr.
StableBefore(arr, i, j) ==
    \/ Compare(arr[i], arr[j]) < 0
    \/ Compare(arr[i], arr[j]) = 0 /\ i < j

\* The same with elements the comparator calls equal in reverse.
UnstableBefore(arr, i, j) ==
    \/ Compare(arr[i], arr[j]) < 0
    \/ Compare(arr[i], arr[j]) = 0 /\ i > j

\* A sort that puts an element before the elements it compares equal to.
ArraySortUnstable(arr) ==
    [k \in 1..Len(arr) |->
        arr[CHOOSE i \in 1..Len(arr) :
                Cardinality({j \in 1..Len(arr) : UnstableBefore(arr, j, i)}) = k - 1]]

\* Array.prototype.sort with the comparator of line 123.  The sort is stable
\* (ECMAScript 2019), so its result is the one arrangement of arr in which the
\* k-th element has k - 1 elements before it by StableBefore.
ArraySort(arr) ==
    [k \in 1..Len(arr) |->
        arr[CHOOSE i \in 1..Len(arr) :
                Cardinality({j \in 1..Len(arr) : StableBefore(arr, j, i)}) = k - 1]]

\* docsWithScores.filter(...).sort(...), lines 121-123.
FilterAndSort(scored) == ArraySort(SelectSeq(scored, Relevant))

----------------------------------------------------------------------------
(* generateAnswerWithOpenAI, lines 175-199 *)

Apology == "Sorry, I encountered an error while generating an answer."

ChatOk == [kind |-> "ok", content |-> "ANSWER"]
ChatError == [kind |-> "error", content |-> ""]
NoChat == [kind |-> "none", content |-> ""]
ChatResponses == {ChatOk, ChatError}

\* generateAnswerWithOpenAI without its catch: the failure propagates.
generateAnswerNoCatch(resp) ==
    [threw |-> resp.kind # "ok", value |-> resp.content]

generateAnswerWithOpenAI(resp) ==
    [threw |-> FALSE, value |-> IF resp.kind = "ok" THEN resp.content ELSE Apology]

----------------------------------------------------------------------------
(* loadDocuments and main, lines 79-94 and 201-225 *)

NoDocsMessage == "No relevant documents found."

Letters == <<"A", "B", "C", "D", "E", "F", "G", "H">>

\* The data field of the i-th file of the knowledge base.
FileData(i) == <<Letters[i]>>

\* The sets of files that do not parse or hold no data: none, or the first.
BadFiles(n) == {{}} \cup {{i} : i \in 1..Min(n, 1)}

\* loadDocuments over n files of which those in bad do not parse or hold no data.
loadDocuments(n, bad) ==
    [i \in 1..n |-> [filename |-> i, content |-> IF i \in bad THEN <<>> ELSE FileData(i)]]

\* The argument of join, line 216.
Separator == <<"\n", "\n">>

\* Array.prototype.join over strings kept as sequences of characters.
RECURSIVE Join(_, _)
Join(strings, sep) ==
    IF strings = <<>> THEN <<>>
    ELSE IF Len(strings) = 1 THEN strings[1]
    ELSE strings[1] \o sep \o Join(Tail(strings), sep)

\* The context built from every loaded document instead of the retrieved ones.
BuildContextAllDocuments(docs) ==
    Join([i \in DOMAIN documents |-> documents[i].content], Separator)

\* relevantDocs.map((doc) => doc.content).join("\n\n"), line 216.
BuildContext(docs) == Join([i \in DOMAIN docs |-> docs[i].content], Separator)

NeverEmpty(docs) == FALSE

\* relevantDocs.length === 0, line 210.
NoRelevantDocs(docs) == Len(docs) = 0

ReportWithoutClose == [output |-> <<NoDocsMessage>>, rlOpen |-> TRUE]

\* The early return of main, lines 211-213: the report, then rl.close().
ReportNoDocuments == [output |-> <<NoDocsMessage>>, rlOpen |-> FALSE]


----------------------------------------------------------------------------
(* Inputs *)

Queries == {"What is retrieval augmented generation?"}

\* What the embedding service may do for the query.
QueryResponses ==
    {EmbedOk(Arr(<<1, 1, 0>>)), EmbedOk(Arr(<<1, 1>>)), EmbedOk(Missing),
     EmbedHttpError, EmbedNetworkError}

\* What the embedding service may do for a document.  Against the query
\* embedding <<1, 1, 0>> the vectors score 1, 2/sqrt(6) and exactly 1/2; against
\* <<1, 1>> they are cut to two entries and score 1, 1 and 1/sqrt(2).
DocResponses ==
    {EmbedOk(Arr(<<1, 1, 0>>)), EmbedOk(Arr(<<1, 1, 1>>)), EmbedOk(Arr(<<1, 0, 1>>)),
     EmbedOk(Missing), EmbedHttpError}

Components == {-1, 0, 1}

\* The arguments given to cosineSimilarity in CosSpec.
CosInputs ==
    {Missing, Scalar, FallbackVector}
        \cup {Arr(v) : v \in UNION {[1..n -> Components] : n \in 0..MaxDim}}

----------------------------------------------------------------------------
(* The program *)

\* const queryEmbedding = await getEmbedding(query), line 99: the value is
\* fixed by what the embedding service did for the query, and there is none
\* before the call has settled.
queryEmbedding ==
    IF queryResponse = NoResponse THEN Missing ELSE getEmbedding(queryResponse)

Init ==
    /\ pc = "start"
    /\ rlOpen = TRUE
    /\ prompts = 0
    /\ documents = <<>>
    /\ query = ""
    /\ context = <<>>
    /\ genCalls = 0
    /\ chatResponse = NoChat
    /\ output = <<>>
    /\ rpc = "idle"
    /\ queryResponse = NoResponse
    /\ docState = <<>>
    /\ docResponse = <<>>
    /\ docsWithScores = <<>>
    /\ outOfOrder = FALSE
    /\ relevantDocs = <<>>
    /\ cosPc = "off"
    /\ vecA = Missing
    /\ vecB = Missing
    /\ cosResult = ZeroScore
    /\ cosKept = FALSE

\* main up to its first await, lines 202-204: the documents are loaded and the
\* question is put to the terminal.  The knowledge-base directory is readable.
MainStart ==
    /\ pc = "start"
    /\ \E n \in 0..MaxDocs : \E bad \in BadFiles(n) :
           documents' = loadDocuments(n, bad)
    /\ prompts' = prompts + 1
    /\ pc' = "asking"
    /\ UNCHANGED <<rlOpen, query, context, genCalls, chatResponse, output>>
    /\ UNCHANGED <<retrVars, cosVars>>

\* The user answers the prompt; main calls the retrieval, which asks for the
\* embedding of the query, lines 204-206 and 98-99.
QuestionAnswered ==
    /\ pc = "asking"
    /\ \E q \in Queries : query' = q
    /\ pc' = "retrieving"
    /\ rpc' = "embedQuery"
    /\ UNCHANGED <<rlOpen, prompts, documents, context, genCalls, chatResponse, output>>
    /\ UNCHANGED <<queryResponse, docState, docResponse, docsWithScores, outOfOrder,
                   relevantDocs>>
    /\ UNCHANGED cosVars

\* The embedding call of the query settles, lines 99-118: an invalid embedding
\* returns [], a valid one starts the embedding call of every document.
QueryEmbeddingSettles ==
    /\ rpc = "embedQuery"
    /\ \E resp \in QueryResponses :
           /\ queryResponse' = resp
           /\ IF InvalidQueryEmbedding(getEmbedding(resp))
              THEN /\ relevantDocs' = <<>>
                   /\ rpc' = "returned"
                   /\ UNCHANGED <<docState, docResponse, docsWithScores>>
              ELSE /\ docState' = [i \in DOMAIN documents |-> "inflight"]
                   /\ docResponse' = [i \in DOMAIN documents |-> NoResponse]
                   /\ docsWithScores' =
                          [i \in DOMAIN documents |-> ScoredDoc(documents[i], ZeroScore)]
                   /\ rpc' = "fanout"
                   /\ UNCHANGED relevantDocs
    /\ UNCHANGED outOfOrder
    /\ UNCHANGED <<mainVars, cosVars>>

\* The embedding call of document i settles and its callback runs to its end,
\* lines 110-116.  A rejected promise rejects Promise.all, and the catch of
\* lines 124-127 returns [].
DocEmbeddingSettles ==
    /\ rpc = "fanout"
    /\ \E i \in DOMAIN documents : \E resp \in DocResponses :
           LET outcome == DocHandler(documents[i], queryEmbedding, resp) IN
           /\ docState[i] = "inflight"
           /\ docState' = [docState EXCEPT ![i] = "settled"]
           /\ docResponse' = [docResponse EXCEPT ![i] = resp]
           /\ outOfOrder' = (outOfOrder \/ \E j \in 1..(i - 1) : docState[j] = "inflight")
           /\ IF outcome.rejected
              THEN /\ relevantDocs' = <<>>
                   /\ rpc' = "returned"
                   /\ UNCHANGED docsWithScores
              ELSE /\ docsWithScores' = [docsWithScores EXCEPT ![i] = outcome.value]
                   /\ UNCHANGED <<relevantDocs, rpc>>
    /\ UNCHANGED queryResponse
    /\ UNCHANGED <<mainVars, cosVars>>

\* Promise.all fulfils; the retrieval filters, sorts and returns, lines 107-123.
Collect ==
    /\ rpc = "fanout"
    /\ AllSettled(docState)
    /\ relevantDocs' = FilterAndSort(docsWithScores)
    /\ rpc' = "returned"
    /\ UNCHANGED <<queryResponse, docState, docResponse, docsWithScores, outOfOrder>>
    /\ UNCHANGED <<mainVars, cosVars>>

\* main after the retrieval, lines 210-217: the early return, or the context
\* and the call of generateAnswerWithOpenAI.
MainAfterRetrieve ==
    /\ pc = "retrieving"
    /\ rpc = "returned"
    /\ IF NoRelevantDocs(relevantDocs)
       THEN /\ output' = ReportNoDocuments.output
            /\ rlOpen' = ReportNoDocuments.rlOpen
            /\ pc' = "done"
            /\ UNCHANGED <<context, genCalls>>
       ELSE /\ context' = BuildContext(relevantDocs)
            /\ genCalls' = genCalls + 1
            /\ pc' = "generating"
            /\ UNCHANGED <<output, rlOpen>>
    /\ UNCHANGED <<prompts, documents, query, chatResponse>>
    /\ UNCHANGED <<retrVars, cosVars>>

\* The chat call settles and main prints the answer and closes rl, lines
\* 178-198 and 217-223.  An error out of generateAnswerWithOpenAI leaves main.
AnswerSettles ==
    /\ pc = "generating"
    /\ \E resp \in ChatResponses :
           LET outcome == generateAnswerWithOpenAI(resp) IN
           /\ chatResponse' = resp
           /\ IF outcome.threw
              THEN /\ pc' = "crashed"
                   /\ UNCHANGED <<output, rlOpen>>
              ELSE /\ output' = <<outcome.value>>
                   /\ rlOpen' = FALSE
                   /\ pc' = "done"
    /\ UNCHANGED <<prompts, documents, query, context, genCalls>>
    /\ UNCHANGED <<retrVars, cosVars>>

Next ==
    \/ MainStart
    \/ QuestionAnswered
    \/ QueryEmbeddingSettles
    \/ DocEmbeddingSettles
    \/ Collect
    \/ MainAfterRetrieve
    \/ AnswerSettles

Spec == Init /\ [][Next]_vars

\* Every prompt and every network call completes, and the event loop runs
\* every continuation that is ready.
FairSpec == Spec /\ WF_vars(Next)

----------------------------------------------------------------------------
(* cosineSimilarity on its own *)

CosInit ==
    /\ pc = "start"
    /\ rlOpen = TRUE
    /\ prompts = 0
    /\ documents = <<>>
    /\ query = ""
    /\ context = <<>>
    /\ genCalls = 0
    /\ chatResponse = NoChat
    /\ output = <<>>
    /\ rpc = "idle"
    /\ queryResponse = NoResponse
    /\ docState = <<>>
    /\ docResponse = <<>>
    /\ docsWithScores = <<>>
    /\ outOfOrder = FALSE
    /\ relevantDocs = <<>>
    /\ cosPc = "input"
    /\ vecA \in CosInputs
    /\ vecB \in CosInputs
    /\ cosResult = ZeroScore
    /\ cosKept = FALSE

\* cosineSimilarity(vecA, vecB), as line 111 calls it.
CosApply ==
    /\ cosPc = "input"
    /\ cosResult' = cosineSimilarity(vecA, vecB)
    /\ cosPc' = "applied"
    /\ UNCHANGED <<vecA, vecB, cosKept>>
    /\ UNCHANGED <<mainVars, retrVars>>

\* The filter and sort of lines 121-123 over one document with that score.
CosFilter ==
    /\ cosPc = "applied"
    /\ cosKept' = (FilterAndSort(<<ScoredDoc(loadDocuments(1, {})[1], cosResult)>>) # <<>>)
    /\ cosPc' = "filtered"
    /\ UNCHANGED <<vecA, vecB, cosResult>>
    /\ UNCHANGED <<mainVars, retrVars>>

CosNext ==
    \/ CosApply
    \/ CosFilter

CosSpec == CosInit /\ [][CosNext]_vars


----------------------------------------------------------------------------
(* Properties *)

\* s > 1/2 for s = num / sqrt(den2): num > 0 and 4 num^2 > den2.
AboveHalf(s) == s.den2 > 0 /\ s.num > 0 /\ 4 * s.num * s.num > s.den2

\* s = 1/2 exactly.
ExactlyHalf(s) == s.den2 > 0 /\ s.num > 0 /\ 4 * s.num * s.num = s.den2

\* a >= b for two scores above 1/2.
AtLeast(a, b) == a.num * a.num * b.den2 >= b.num * b.num * a.den2

SameScore(a, b) == AtLeast(a, b) /\ AtLeast(b, a)

\* The cosine of document i against the query, from the two embeddings alone.
OwnScore(i) == cosineSimilarity(queryEmbedding, getEmbedding(docResponse[i]))

QuerySucceeded == queryResponse.kind = "ok"
QueryFailed == EmbedFailed(queryResponse)
QueryEmbeddingIsArray == queryEmbedding.kind = "array"
Returned == rpc = "returned"
Retrieved(i) == \E k \in DOMAIN relevantDocs : relevantDocs[k].filename = i
PositionOf(i) == CHOOSE k \in DOMAIN relevantDocs : relevantDocs[k].filename = i

\* The score kept for document i is the cosine of its own embedding.
ScoredByOwnEmbedding(i) == docsWithScores[i] = ScoredDoc(documents[i], OwnScore(i))

\* C1: with a valid query embedding the retrieval returns exactly the documents
\* whose cosine against the query is above 0.5, a score of exactly 0.5 excluded,
\* each with its score and once, in order of non-increasing score.
C1_ExactlyAboveThresholdDescending ==
    (Returned /\ QueryEmbeddingIsArray) =>
        /\ \A i \in DOMAIN documents :
               /\ ScoredByOwnEmbedding(i)
               /\ AboveHalf(docsWithScores[i].score) <=>
                      \E k \in DOMAIN relevantDocs : relevantDocs[k] = docsWithScores[i]
        /\ \A k \in DOMAIN relevantDocs : relevantDocs[k].filename \in DOMAIN documents
        /\ \A j, k \in DOMAIN relevantDocs :
               /\ j # k => relevantDocs[j].filename # relevantDocs[k].filename
               /\ j < k => AtLeast(relevantDocs[j].score, relevantDocs[k].score)

\* C1 witness: a document at exactly 0.5 is left out, and two documents above
\* 0.5 loaded in ascending order of score are returned in descending order.
C1_Witness ==
    /\ Returned
    /\ QuerySucceeded
    /\ QueryEmbeddingIsArray
    /\ \E i \in DOMAIN documents : ExactlyHalf(OwnScore(i)) /\ ~Retrieved(i)
    /\ \E i, j \in DOMAIN documents :
           /\ i < j
           /\ Retrieved(i)
           /\ Retrieved(j)
           /\ ~AtLeast(OwnScore(i), OwnScore(j))
           /\ PositionOf(j) < PositionOf(i)

\* C2: when the embedding call of the query fails, the retrieval returns the
\* empty list, for every document set and whatever the document calls did.
C2_QueryFailureReturnsEmpty ==
    (Returned /\ QueryFailed) => relevantDocs = <<>>

\* C2 witness: the query call failed, the calls of three documents succeeded
\* with non-zero vectors, and the result is empty.
C2_Witness ==
    /\ Returned
    /\ QueryFailed
    /\ Len(documents) = 3
    /\ \A i \in DOMAIN documents :
           docState[i] = "settled" /\ docResponse[i] = EmbedOk(Arr(<<1, 1, 0>>))
    /\ relevantDocs = <<>>

\* C3: a failed embedding call of one document gives that document the score 0
\* and does not abort the retrieval; every other document keeps the score of
\* its own embedding against the query, and is returned when that is above 0.5.
C3_DocumentFailureIsolated ==
    \A j \in DOMAIN docState :
        (docState[j] = "settled" /\ EmbedFailed(docResponse[j])) =>
            /\ docsWithScores[j].score = ZeroScore
            /\ \A i \in DOMAIN docState \ {j} :
                   (docState[i] = "settled" /\ ~EmbedFailed(docResponse[i])) =>
                       /\ docsWithScores[i] = ScoredDoc(documents[i], OwnScore(i))
                       /\ (Returned /\ AboveHalf(OwnScore(i))) =>
                              /\ Retrieved(i)
                              /\ relevantDocs[PositionOf(i)].score = OwnScore(i)
            /\ Returned => ~Retrieved(j) /\ AllSettled(docState)

\* C3 witness: one document's call failed and another document is returned
\* with the score of its own embedding.
C3_Witness ==
    /\ Returned
    /\ \E i, j \in DOMAIN docState :
           /\ i # j
           /\ EmbedFailed(docResponse[j])
           /\ docsWithScores[j].score = ZeroScore
           /\ ~EmbedFailed(docResponse[i])
           /\ AboveHalf(OwnScore(i))
           /\ Retrieved(i)

AfterRetrieval == pc \in {"generating", "done", "crashed"}

\* C4: generateAnswerWithOpenAI is called at most once, and exactly when the
\* retrieval result is not empty; with an empty result (every score at most
\* 0.5 included) main reports that no documents were found and never calls it.
C4_AnswerOnlyForNonEmptyRetrieval ==
    /\ genCalls <= 1
    /\ ~AfterRetrieval => genCalls = 0
    /\ AfterRetrieval => (genCalls = 1 <=> relevantDocs # <<>>)
    /\ (AfterRetrieval /\ relevantDocs = <<>>) =>
           /\ pc = "done"
           /\ output = <<NoDocsMessage>>
           /\ chatResponse = NoChat
    /\ (AfterRetrieval /\ docState # <<>>
            /\ \A i \in DOMAIN docsWithScores : ~AboveHalf(docsWithScores[i].score)) =>
           /\ output = <<NoDocsMessage>>
           /\ genCalls = 0

\* C4 witness: three documents were scored against a valid query embedding,
\* none above 0.5, and main reported and finished without the answer call.
C4_Witness ==
    /\ pc = "done"
    /\ QuerySucceeded
    /\ Len(documents) = 3
    /\ AllSettled(docState)
    /\ docState # <<>>
    /\ \E i \in DOMAIN documents : ExactlyHalf(docsWithScores[i].score)
    /\ output = <<NoDocsMessage>>
    /\ genCalls = 0

Range(f) == {f[i] : i \in DOMAIN f}

\* The contents of docs[1..n], each but the first preceded by a blank line.
RECURSIVE ContentsWithBlankLines(_, _)
ContentsWithBlankLines(docs, n) ==
    IF n = 0 THEN <<>>
    ELSE IF n = 1 THEN docs[1].content
    ELSE ContentsWithBlankLines(docs, n - 1) \o <<"\n", "\n">> \o docs[n].content

\* C5: the context given to generateAnswerWithOpenAI is the contents of the
\* returned documents in ranked order, joined by blank lines, and holds the
\* content of no document that was filtered out.
C5_ContextFromRetrievedOnly ==
    genCalls = 1 =>
        /\ context = ContentsWithBlankLines(relevantDocs, Len(relevantDocs))
        /\ \A k \in DOMAIN relevantDocs :
               relevantDocs[k].content = documents[relevantDocs[k].filename].content
        /\ \A i \in DOMAIN documents :
               ~Retrieved(i) => \A c \in Range(documents[i].content) : c \notin Range(context)

\* C5 witness: of the documents "A", "B", "C" only "B" scores above 0.5 and the
\* context is "B".
C5_Witness ==
    /\ genCalls = 1
    /\ Len(documents) = 3
    /\ \A i \in DOMAIN documents : documents[i].content = FileData(i)
    /\ Len(relevantDocs) = 1
    /\ relevantDocs[1].filename = 2
    /\ context = <<"B">>

\* C5 second witness state: two documents returned against their load order.
C5_RankedWitness ==
    /\ genCalls = 1
    /\ Len(relevantDocs) = 2
    /\ relevantDocs[1].filename > relevantDocs[2].filename
    /\ context = <<"C", "\n", "\n", "A">>


\* C6: whichever of the external calls fail, no error leaves main: a failed
\* embedding is the zero vector and scores 0, a failed query embedding gives an
\* empty result, a failed chat call gives the apology, and the run stops only in
\* one of its two exits, the report or the printed answer.
C6_NoErrorLeavesMain ==
    /\ pc # "crashed"
    /\ pc = "done" =>
           \/ output = <<NoDocsMessage>> /\ relevantDocs = <<>> /\ chatResponse = NoChat
           \/ output = <<chatResponse.content>> /\ chatResponse = ChatOk
           \/ output = <<Apology>> /\ chatResponse = ChatError
    /\ (QueryFailed /\ Returned) => relevantDocs = <<>>
    /\ \A i \in DOMAIN docState :
           (docState[i] = "settled" /\ EmbedFailed(docResponse[i])) =>
               docsWithScores[i].score = ZeroScore

\* C6 witness: a document's embedding call and the chat call both failed and
\* main printed the apology and finished.
C6_Witness ==
    /\ pc = "done"
    /\ chatResponse = ChatError
    /\ \E i \in DOMAIN docState : EmbedFailed(docResponse[i])
    /\ output = <<Apology>>

\* Either argument is no array, the common prefix is empty, or one of the
\* vectors is all zero over the common prefix.
Degenerate(a, b) ==
    \/ a.kind # "array"
    \/ b.kind # "array"
    \/ LET length == Min(Len(a.vec), Len(b.vec)) IN
           \/ length = 0
           \/ \A i \in 1..length : a.vec[i] = 0
           \/ \A i \in 1..length : b.vec[i] = 0

\* C7: cosineSimilarity returns exactly 0, not NaN, when an argument is missing
\* or no array, when the common prefix is empty, or when a vector is all zero
\* over the common prefix; so a document scored against or with the fallback
\* vector of 512 zeros scores 0 and is not in the retrieval result.
C7_DegenerateInputsScoreZero ==
    (cosPc \in {"applied", "filtered"} /\ Degenerate(vecA, vecB)) =>
        /\ cosResult = ZeroScore
        /\ cosPc = "filtered" => ~cosKept

\* C7 witness: a non-zero vector scored against the fallback vector.
C7_Witness ==
    /\ cosPc = "filtered"
    /\ vecA = Arr(<<1, 1, 0>>)
    /\ vecB = FallbackVector
    /\ cosResult = ZeroScore
    /\ ~cosKept

Terminated == pc = "done"

\* What holds at the end of main: one prompt, at most one answer, rl closed.
ExitState ==
    /\ ~rlOpen
    /\ prompts = 1
    /\ genCalls <= 1
    /\ Len(output) = 1

C9_FanOutAfterQueryCollectAfterAll ==
    /\ docState # <<>> =>
           /\ rpc \in {"fanout", "returned"}
           /\ queryResponse # NoResponse
           /\ queryEmbedding.kind = "array"
    /\ rpc \in {"idle", "embedQuery"} => docState = <<>>
    /\ (Returned /\ queryEmbedding.kind = "array") =>
           /\ DOMAIN docState = DOMAIN documents
           /\ \A i \in DOMAIN documents :
                  docState[i] = "settled" /\ docResponse[i] # NoResponse
    /\ rpc = "fanout" => relevantDocs = <<>>

\* C9 witness: three documents, all settled, and a result computed from them.
C9_Witness ==
    /\ Returned
    /\ Len(documents) = 3
    /\ AllSettled(docState)
    /\ docState # <<>>
    /\ Len(relevantDocs) = 2

\* The place of document i in the ranking: after every document above 0.5
\* that scores higher, or the same and was loaded earlier.
RankOf(i) ==
    1 + Cardinality({j \in DOMAIN documents :
            /\ AboveHalf(docsWithScores[j].score)
            /\ \/ ~AtLeast(docsWithScores[i].score, docsWithScores[j].score)
               \/ /\ SameScore(docsWithScores[i].score, docsWithScores[j].score)
                  /\ j < i})

\* C10: the result is fixed by the embedding responses, whatever the order in
\* which the document calls complete: every score is that of the document's own
\* response, and the result is the documents above 0.5 by descending score,
\* documents of equal score in load order.
C10_ResultIndependentOfCompletionOrder ==
    (Returned /\ QueryEmbeddingIsArray) =>
        /\ \A i \in DOMAIN documents : docsWithScores[i].score = OwnScore(i)
        /\ Len(relevantDocs) =
               Cardinality({i \in DOMAIN documents : AboveHalf(docsWithScores[i].score)})
        /\ \A i \in DOMAIN documents :
               AboveHalf(docsWithScores[i].score) => relevantDocs[RankOf(i)].filename = i

\* C10 witness: the calls completed out of load order and two documents of
\* equal score are returned in load order.
C10_Witness ==
    /\ Returned
    /\ outOfOrder
    /\ \E j, k \in DOMAIN relevantDocs :
           /\ j < k
           /\ SameScore(relevantDocs[j].score, relevantDocs[k].score)
           /\ relevantDocs[j].filename < relevantDocs[k].filename

====
